---- MODULE Spec2Model ----
(***************************************************************************)
(* Model of replace_txts_with_mapping_csv.py.                              *)
(*                                                                         *)
(* A Python str is a sequence of one-character strings: "" is << >> and    *)
(* "ab" is <<"a", "b">>.  A CSV file is the sequence of records that       *)
(* csv.reader yields for it, the header record first; a record is a        *)
(* sequence of cells and a blank line is the record << >>.                 *)
(*                                                                         *)
(* Three specifications share the module:                                  *)
(*   SpecLoad    ReplaceMappingCsv.__init__ on one CSV file                *)
(*   SpecReplace ReplaceMappingCsv.replace_text on one text                *)
(*   SpecBatch   the per-file loop of __replace_txts_with_mapping_csv      *)
(***************************************************************************)
EXTENDS Integers, Sequences, FiniteSets, TLC

VARIABLES
    csv_file,                 \* the records of the file at PATH
    lpc,                      \* position inside ReplaceMappingCsv.__init__
    df,                       \* the DataFrame __read_csv returned, as its rows
    mapping_dict,             \* self.__mapping_dict, an ordered list of <<find, replace>>
    duplicated_find_strings,  \* the second value of __create_mapping_dict_from_df
    error,                    \* the ValueError that left __init__, or NoError
    constructed,              \* TRUE once __init__ has returned an instance
    rpc,                      \* "idle", or "returned" after a call of replace_text
    data,                     \* the argument of the last call of replace_text
    replaced_text,            \* the value the last call of replace_text returned
    txt_paths,                \* the input folder: the texts of its files, in iterdir order
    bpc,                      \* position inside the loop of __replace_txts_with_mapping_csv
    file_i,                   \* index in txt_paths of original_txt_path
    original_text,            \* the local original_text
    exceptions,               \* the list exceptions, as [file, step] records
    reading_log,              \* the files named by the 'Reading TXT' log lines
    writing_log,              \* the files named by the 'Writing new TXT' log lines
    outputs,                  \* the output folder: per input file, its text or NoFile
    exit_code                 \* NotExited, 0 (the function returned) or 1 (sys.exit(1))

loadVars == <<csv_file, lpc, df, mapping_dict, duplicated_find_strings, error, constructed>>

replaceVars == <<rpc, data, replaced_text>>

batchVars == <<txt_paths, bpc, file_i, original_text, exceptions, reading_log,
               writing_log, outputs, exit_code>>

vars == <<loadVars, replaceVars, batchVars>>

----------------------------------------------------------------------------
(* Bounds and input sets                                                    *)

MaxRows == 3

FIND_STRING_COLUMN == <<"F">>

REPLACE_STRING_COLUMN == <<"R">>

\* Header records of the files considered.
HeaderSet ==
    { << >>,
      << <<"F">> >>,
      << <<"R">> >>,
      << <<"F">>, <<"R">> >>,
      << <<"R">>, <<"F">> >>,
      << <<"R">>, <<"F">>, <<"R">> >> }

FindCells == { << >>, <<"a">>, <<"b">>, <<"c">> }

ReplaceCells == { <<"1">>, <<"2">> }

FillerCells == { << >>, <<"o">> }

CellsOf(col) ==
    IF col = FIND_STRING_COLUMN THEN FindCells
    ELSE IF col = REPLACE_STRING_COLUMN THEN ReplaceCells
    ELSE FillerCells

\* Data records under a header: a blank line, a record as wide as the header
\* with each cell drawn from its column's cells, or a record of another width
\* (at most one cell wider than the header) filled with one filler cell.
RowSet(headers) ==
    { row \in [1..Len(headers) -> FindCells \cup ReplaceCells] :
        \A j \in 1..Len(headers) : row[j] \in CellsOf(headers[j]) }
    \cup { [j \in 1..w |-> c] : w \in (0..(Len(headers) + 1)) \ {Len(headers)},
                                c \in FillerCells }

\* The files considered: the empty file, and every header followed by at
\* most MaxRows data records.
IsCsvFile(file) ==
    \/ file = << >>
    \/ \E h \in HeaderSet : \E n \in 0..MaxRows : \E rows \in [1..n -> RowSet(h)] :
          file = <<h>> \o rows

----------------------------------------------------------------------------
(* Helpers for Python's list and dict operations                            *)

In(x, list) == \E i \in 1..Len(list) : list[i] = x

Count(list, x) == Cardinality({ i \in 1..Len(list) : list[i] = x })

HasKey(dict, key) == \E i \in 1..Len(dict) : dict[i][1] = key

Keys(dict) == [i \in 1..Len(dict) |-> dict[i][1]]

----------------------------------------------------------------------------
(* ReplaceMappingCsv.__read_csv                                             *)

NoError == [kind |-> "None", items |-> << >>]

Raise(kind, items) == [kind |-> kind, items |-> items]

\* Variant of broken_line_ids: enumerate(reader, start=1).
broken_line_ids_from1(file) ==
    SelectSeq([i \in 1..(Len(file) - 1) |-> i],
              LAMBDA line_id : Len(file[line_id + 1]) \notin {0, Len(file[1])})

\* line_id of a data record: enumerate(reader, start=2), which is the
\* record's index in the file.
broken_line_ids(file) ==
    SelectSeq([i \in 1..(Len(file) - 1) |-> i + 1],
              LAMBDA line_id : Len(file[line_id]) \notin {0, Len(file[1])})

\* Variant of missing_columns: stops at the first missing column.
missing_columns_first(use_columns, headers) ==
    SubSeq(SelectSeq(use_columns, LAMBDA col : ~In(col, headers)), 1, 1)

missing_columns(use_columns, headers) ==
    SelectSeq(use_columns, LAMBDA col : ~In(col, headers))

duplicated_columns(use_columns, headers) ==
    SelectSeq(use_columns, LAMBDA col : Count(headers, col) > 1)

\* Variant of pd_read_csv: skip_blank_lines=False, a blank line is a row of
\* empty cells.
pd_read_csv_keep_blank(file) ==
    [i \in 1..(Len(file) - 1) |->
        IF Len(file[i + 1]) = 0 THEN [j \in 1..Len(file[1]) |-> << >>] ELSE file[i + 1]]

\* pd.read_csv(dtype=str, keep_default_na=False): blank lines are skipped,
\* every other record is one row whose cells are kept as they are.
pd_read_csv(file) ==
    SelectSeq(Tail(file), LAMBDA row : Len(row) # 0)

\* Variant of read_csv: the broken rows are reported before the columns are
\* checked.
read_csv_broken_first(file, allow_empty, use_columns) ==
    IF Len(file) = 0
    THEN [err |-> Raise("NoColumns", << >>), df |-> << >>]
    ELSE LET headers == file[1]
             broken == broken_line_ids(file)
             missing == missing_columns(use_columns, headers)
             duplicated == duplicated_columns(use_columns, headers)
         IN  IF Len(broken) > 0
             THEN [err |-> Raise("BrokenRow", broken), df |-> << >>]
             ELSE IF Len(missing) > 0
             THEN [err |-> Raise("MissingColumn", missing), df |-> << >>]
             ELSE IF Len(duplicated) > 0
             THEN [err |-> Raise("DuplicatedColumn", duplicated), df |-> << >>]
             ELSE IF ~allow_empty /\ Len(pd_read_csv(file)) = 0
             THEN [err |-> Raise("EmptyRows", << >>), df |-> << >>]
             ELSE [err |-> NoError, df |-> pd_read_csv(file)]

\* The outcome of __read_csv: the error it raises or the DataFrame.
read_csv(file, allow_empty, use_columns) ==
    IF Len(file) = 0
    THEN [err |-> Raise("NoColumns", << >>), df |-> << >>]
    ELSE LET headers == file[1]
             broken == broken_line_ids(file)
             missing == missing_columns(use_columns, headers)
             duplicated == duplicated_columns(use_columns, headers)
         IN  IF Len(missing) > 0
             THEN [err |-> Raise("MissingColumn", missing), df |-> << >>]
             ELSE IF Len(duplicated) > 0
             THEN [err |-> Raise("DuplicatedColumn", duplicated), df |-> << >>]
             ELSE IF Len(broken) > 0
             THEN [err |-> Raise("BrokenRow", broken), df |-> << >>]
             ELSE IF ~allow_empty /\ Len(pd_read_csv(file)) = 0
             THEN [err |-> Raise("EmptyRows", << >>), df |-> << >>]
             ELSE [err |-> NoError, df |-> pd_read_csv(file)]

----------------------------------------------------------------------------
(* ReplaceMappingCsv.__create_mapping_dict_from_df                          *)

ColIndex(headers, col) == CHOOSE j \in 1..Len(headers) : headers[j] = col

\* df[list(two_columns)].values
TwoColumnValues(rows, headers, two_columns) ==
    [i \in 1..Len(rows) |->
        << rows[i][ColIndex(headers, two_columns[1])],
           rows[i][ColIndex(headers, two_columns[2])] >>]

\* Variant of CreateLoop: a repeated find value overwrites its entry.
RECURSIVE CreateLoopOverwrite(_, _, _, _)
CreateLoopOverwrite(values, i, dict, dups) ==
    IF i > Len(values)
    THEN <<dict, dups>>
    ELSE LET find_str == values[i][1]
             replace_str == values[i][2]
         IN  IF ~HasKey(dict, find_str)
             THEN CreateLoopOverwrite(values, i + 1,
                                      Append(dict, <<find_str, replace_str>>), dups)
             ELSE CreateLoopOverwrite(
                      values, i + 1,
                      [k \in 1..Len(dict) |->
                          IF dict[k][1] = find_str THEN <<find_str, replace_str>> ELSE dict[k]],
                      IF ~In(find_str, dups) THEN Append(dups, find_str) ELSE dups)

\* Variant of CreateLoop: a new entry is put in front of the older ones.
RECURSIVE CreateLoopPrepend(_, _, _, _)
CreateLoopPrepend(values, i, dict, dups) ==
    IF i > Len(values)
    THEN <<dict, dups>>
    ELSE LET find_str == values[i][1]
             replace_str == values[i][2]
         IN  IF ~HasKey(dict, find_str)
             THEN CreateLoopPrepend(values, i + 1,
                                    << <<find_str, replace_str>> >> \o dict, dups)
             ELSE IF ~In(find_str, dups)
             THEN CreateLoopPrepend(values, i + 1, dict, Append(dups, find_str))
             ELSE CreateLoopPrepend(values, i + 1, dict, dups)

RECURSIVE CreateLoop(_, _, _, _)
CreateLoop(values, i, dict, dups) ==
    IF i > Len(values)
    THEN <<dict, dups>>
    ELSE LET find_str == values[i][1]
             replace_str == values[i][2]
         IN  IF ~HasKey(dict, find_str)
             THEN CreateLoop(values, i + 1, Append(dict, <<find_str, replace_str>>), dups)
             ELSE IF ~In(find_str, dups)
             THEN CreateLoop(values, i + 1, dict, Append(dups, find_str))
             ELSE CreateLoop(values, i + 1, dict, dups)

create_mapping_dict_from_df(rows, headers, two_columns) ==
    CreateLoop(TwoColumnValues(rows, headers, two_columns), 1, << >>, << >>)

----------------------------------------------------------------------------
(* ReplaceMappingCsv.__init__ / __read_csv_into_mapping_dict                *)

find_and_replace_columns == <<FIND_STRING_COLUMN, REPLACE_STRING_COLUMN>>

\* The state in which __init__ is entered for the file.
BeforeInit ==
    /\ lpc = "read_csv"
    /\ df = << >>
    /\ mapping_dict = << >>
    /\ duplicated_find_strings = << >>
    /\ error = NoError
    /\ constructed = FALSE

NoText == <<"<unset>">>

NoFile == <<"<no file>">>

NotExited == -1

ReplaceIdle ==
    /\ rpc = "idle"
    /\ data = NoText
    /\ replaced_text = NoText

BatchIdle ==
    /\ txt_paths = << >>
    /\ bpc = "idle"
    /\ file_i = 0
    /\ original_text = NoText
    /\ exceptions = << >>
    /\ reading_log = << >>
    /\ writing_log = << >>
    /\ outputs = << >>
    /\ exit_code = NotExited

InitLoad ==
    /\ IsCsvFile(csv_file)
    /\ BeforeInit
    /\ ReplaceIdle
    /\ BatchIdle

\* line 236: df = self.__read_csv(allow_empty=False, use_columns=...)
ReadCsv ==
    /\ lpc = "read_csv"
    /\ LET r == read_csv(csv_file, FALSE, find_and_replace_columns)
       IN  /\ error' = r.err
           /\ df' = r.df
           /\ lpc' = IF r.err = NoError THEN "create_mapping" ELSE "raised"
    /\ UNCHANGED <<csv_file, mapping_dict, duplicated_find_strings, constructed>>
    /\ UNCHANGED <<replaceVars, batchVars>>

\* lines 237-239: self.__mapping_dict, duplicated_find_strings = ...
CreateMappingDict ==
    /\ lpc = "create_mapping"
    /\ LET r == create_mapping_dict_from_df(df, csv_file[1], find_and_replace_columns)
       IN  /\ mapping_dict' = r[1]
           /\ duplicated_find_strings' = r[2]
    /\ lpc' = "check_find_strings"
    /\ UNCHANGED <<csv_file, df, error, constructed>>
    /\ UNCHANGED <<replaceVars, batchVars>>

\* Variant of check_find_strings: the blank find string is not looked for.
check_find_strings_no_blank(dict, dups) ==
    IF Len(dups) > 0
    THEN Raise("DuplicatedFindValue", dups)
    ELSE NoError

\* lines 240-244, and the return of __init__ when neither raise is taken
check_find_strings(dict, dups) ==
    IF Len(dups) > 0
    THEN Raise("DuplicatedFindValue", dups)
    ELSE IF HasKey(dict, << >>)
    THEN Raise("BlankFindValue", << >>)
    ELSE NoError

CheckFindStrings ==
    /\ lpc = "check_find_strings"
    /\ error' = check_find_strings(mapping_dict, duplicated_find_strings)
    /\ constructed' = (error' = NoError)
    /\ lpc' = IF error' = NoError THEN "returned" ELSE "raised"
    /\ UNCHANGED <<csv_file, df, mapping_dict, duplicated_find_strings>>
    /\ UNCHANGED <<replaceVars, batchVars>>

NextLoad ==
    \/ ReadCsv
    \/ CreateMappingDict
    \/ CheckFindStrings

SpecLoad == InitLoad /\ [][NextLoad]_vars

----------------------------------------------------------------------------
(* ReplaceMappingCsv.replace_text                                           *)

MaxRules == 2

MaxTextLen == 3

FindStrs == { <<"a">>, <<"b">>, <<"a", "a">>, <<"a", "b">> }

ReplaceStrs == { << >>, <<"b">>, <<"c">>, <<"a", "a">> }

TextAlphabet == { "a", "b" }

Texts == UNION { [1..n -> TextAlphabet] : n \in 0..MaxTextLen }

\* The mapping files of the replace_text runs: the header F,R and at most
\* MaxRules rows of a find and a replace string.
IsRulesFile(file) ==
    \E n \in 0..MaxRules : \E rows \in [1..n -> { <<f, r>> : f \in FindStrs, r \in ReplaceStrs }] :
        file = << <<FIND_STRING_COLUMN, REPLACE_STRING_COLUMN>> >> \o rows

\* str.replace(old, new) for a non-empty old: scan from the left; at an
\* occurrence of old emit new and continue behind the occurrence, elsewhere
\* emit the character and continue with the next one.
RECURSIVE ReplaceFrom(_, _, _, _)
ReplaceFrom(s, old, new, i) ==
    IF i > Len(s)
    THEN << >>
    ELSE IF i + Len(old) - 1 <= Len(s) /\ SubSeq(s, i, i + Len(old) - 1) = old
    THEN new \o ReplaceFrom(s, old, new, i + Len(old))
    ELSE <<s[i]>> \o ReplaceFrom(s, old, new, i + 1)

\* str.replace("", new) puts new before every character and at the end.
RECURSIVE Interleave(_, _)
Interleave(s, new) ==
    IF s = << >> THEN new ELSE new \o <<Head(s)>> \o Interleave(Tail(s), new)

\* Variant of StrReplace: an occurrence is recognised by the first
\* character of old alone.
RECURSIVE ReplaceFromFirstChar(_, _, _, _)
ReplaceFromFirstChar(s, old, new, i) ==
    IF i > Len(s)
    THEN << >>
    ELSE IF s[i] = old[1]
    THEN new \o ReplaceFromFirstChar(s, old, new, i + Len(old))
    ELSE <<s[i]>> \o ReplaceFromFirstChar(s, old, new, i + 1)

StrReplaceFirstChar(s, old, new) ==
    IF old = << >> THEN Interleave(s, new) ELSE ReplaceFromFirstChar(s, old, new, 1)

StrReplace(s, old, new) ==
    IF old = << >> THEN Interleave(s, new) ELSE ReplaceFrom(s, old, new, 1)

\* lines 254-255: the loop over self.__mapping_dict.items()
RECURSIVE ReplaceLoop(_, _, _)
ReplaceLoop(dict, i, text) ==
    IF i > Len(dict)
    THEN text
    ELSE ReplaceLoop(dict, i + 1, StrReplace(text, dict[i][1], dict[i][2]))

\* Variant of replace_text: the rules are applied last to first.
RECURSIVE ReplaceLoopReversed(_, _, _)
ReplaceLoopReversed(dict, i, text) ==
    IF i < 1
    THEN text
    ELSE ReplaceLoopReversed(dict, i - 1, StrReplace(text, dict[i][1], dict[i][2]))

replace_text_reversed(dict, text) == ReplaceLoopReversed(dict, Len(dict), text)

replace_text(dict, text) == ReplaceLoop(dict, 1, text)

InitReplace ==
    /\ IsRulesFile(csv_file)
    /\ BeforeInit
    /\ ReplaceIdle
    /\ BatchIdle

\* A call mapping_csv.replace_text(text) on the constructed instance.
ReplaceText ==
    /\ constructed
    /\ \E text \in Texts :
         /\ data' = text
         /\ replaced_text' = replace_text(mapping_dict, text)
    /\ rpc' = "returned"
    /\ UNCHANGED <<loadVars, batchVars>>

NextReplace ==
    \/ ReadCsv
    \/ CreateMappingDict
    \/ CheckFindStrings
    \/ ReplaceText

SpecReplace == InitReplace /\ [][NextReplace]_vars

----------------------------------------------------------------------------
(* __replace_txts_with_mapping_csv, lines 374-423                           *)

MaxFiles == 3

TxtContents == { <<"a">>, <<"b", "a", "a">> }

\* The mapping files of the batch runs.
BatchCsvFiles ==
    { << <<FIND_STRING_COLUMN, REPLACE_STRING_COLUMN>>,
         << <<"a">>, <<"b">> >>, << <<"b">>, <<"c">> >> >>,
      << <<REPLACE_STRING_COLUMN, FIND_STRING_COLUMN>>,
         << <<"x">>, <<"a", "a">> >> >> }

\* The instance Config.from_yaml built from the file: the state in which
\* __init__ returned.
Loaded(file) ==
    LET r == read_csv(file, FALSE, find_and_replace_columns)
        m == create_mapping_dict_from_df(r.df, file[1], find_and_replace_columns)
    IN  /\ csv_file = file
        /\ lpc = "returned"
        /\ df = r.df
        /\ mapping_dict = m[1]
        /\ duplicated_find_strings = m[2]
        /\ error = NoError
        /\ constructed = TRUE

\* TxtsInFolderConfig accepts only a folder with at least one file, and
\* OutputConfig only an empty output folder.
InitBatch ==
    /\ \E file \in BatchCsvFiles : Loaded(file)
    /\ ReplaceIdle
    /\ \E n \in 1..MaxFiles : txt_paths \in [1..n -> TxtContents]
    /\ bpc = "read"
    /\ file_i = 1
    /\ original_text = NoText
    /\ exceptions = << >>
    /\ reading_log = << >>
    /\ writing_log = << >>
    /\ outputs = [i \in 1..Len(txt_paths) |-> NoFile]
    /\ exit_code = NotExited

\* Variant of Continue: the loop is left ('break').
ContinueBreak(i, n) == "after_loop"

\* The position after the body of the loop ended for file i of n, by
\* reaching its end or by 'continue'.
Continue(i, n) == IF i < n THEN "read" ELSE "after_loop"

\* lines 379-383
ReadTxt ==
    /\ bpc = "read"
    /\ reading_log' = Append(reading_log, file_i)
    /\ original_text' = txt_paths[file_i]
    /\ bpc' = "replace"
    /\ UNCHANGED <<txt_paths, file_i, exceptions, writing_log, outputs, exit_code>>
    /\ UNCHANGED <<loadVars, replaceVars>>

\* lines 379-389: open or read raises
ReadTxtFail ==
    /\ bpc = "read"
    /\ reading_log' = Append(reading_log, file_i)
    /\ exceptions' = Append(exceptions, [file |-> file_i, step |-> "read"])
    /\ bpc' = Continue(file_i, Len(txt_paths))
    /\ file_i' = file_i + 1
    /\ UNCHANGED <<txt_paths, original_text, writing_log, outputs, exit_code>>
    /\ UNCHANGED <<loadVars, replaceVars>>

\* lines 391-393
ReplaceTxt ==
    /\ bpc = "replace"
    /\ replaced_text' = replace_text(mapping_dict, original_text)
    /\ bpc' = "write"
    /\ UNCHANGED <<txt_paths, file_i, original_text, exceptions, reading_log,
                   writing_log, outputs, exit_code>>
    /\ UNCHANGED <<loadVars, rpc, data>>

\* lines 391-399: replace_text raises (the text does not fit in memory twice)
ReplaceTxtFail ==
    /\ bpc = "replace"
    /\ exceptions' = Append(exceptions, [file |-> file_i, step |-> "replace"])
    /\ bpc' = Continue(file_i, Len(txt_paths))
    /\ file_i' = file_i + 1
    /\ UNCHANGED <<txt_paths, original_text, reading_log, writing_log, outputs, exit_code>>
    /\ UNCHANGED <<loadVars, replaceVars>>

\* lines 401-406
WriteTxt ==
    /\ bpc = "write"
    /\ writing_log' = Append(writing_log, file_i)
    /\ outputs' = [outputs EXCEPT ![file_i] = replaced_text]
    /\ bpc' = Continue(file_i, Len(txt_paths))
    /\ file_i' = file_i + 1
    /\ UNCHANGED <<txt_paths, original_text, exceptions, reading_log, exit_code>>
    /\ UNCHANGED <<loadVars, replaceVars>>

\* lines 401-412: open raises and leaves no file, or write raises and leaves
\* the file that open created with a part of the text, possibly none of it.
WriteTxtFail ==
    /\ bpc = "write"
    /\ writing_log' = Append(writing_log, file_i)
    /\ \E left \in { NoFile } \cup
                    { SubSeq(replaced_text, 1, k) : k \in 0..(Len(replaced_text) - 1) } :
         outputs' = [outputs EXCEPT ![file_i] = left]
    /\ exceptions' = Append(exceptions, [file |-> file_i, step |-> "write"])
    /\ bpc' = Continue(file_i, Len(txt_paths))
    /\ file_i' = file_i + 1
    /\ UNCHANGED <<txt_paths, original_text, reading_log, exit_code>>
    /\ UNCHANGED <<loadVars, replaceVars>>

\* lines 416-423
Finish ==
    /\ bpc = "after_loop"
    /\ exit_code' = IF Len(exceptions) > 0 THEN 1 ELSE 0
    /\ bpc' = "exited"
    /\ UNCHANGED <<txt_paths, file_i, original_text, exceptions, reading_log,
                   writing_log, outputs>>
    /\ UNCHANGED <<loadVars, replaceVars>>

NextBatch ==
    \/ ReadTxt
    \/ ReadTxtFail
    \/ ReplaceTxt
    \/ ReplaceTxtFail
    \/ WriteTxt
    \/ WriteTxtFail
    \/ Finish

SpecBatch == InitBatch /\ [][NextBatch]_vars

----------------------------------------------------------------------------
(* The source file, described without the loader's operators                *)

Requested == { FIND_STRING_COLUMN, REPLACE_STRING_COLUMN }

HasHeader == Len(csv_file) > 0

DataLines == 2..Len(csv_file)

Absent(col) == \A j \in 1..Len(csv_file[1]) : csv_file[1][j] # col

Repeated(col) ==
    \E j, k \in 1..Len(csv_file[1]) : j # k /\ csv_file[1][j] = col /\ csv_file[1][k] = col

\* The first header position of a column that is present.
Pos(col) ==
    CHOOSE j \in 1..Len(csv_file[1]) :
        csv_file[1][j] = col /\ \A k \in 1..(j - 1) : csv_file[1][k] # col

HasCell(i, col) == ~Absent(col) /\ Len(csv_file[i]) >= Pos(col)

Cell(i, col) == csv_file[i][Pos(col)]

BlankLine(i) == Len(csv_file[i]) = 0

BrokenLine(i) == Len(csv_file[i]) # 0 /\ Len(csv_file[i]) # Len(csv_file[1])

AllCellsEmpty(i) == \A j \in 1..Len(csv_file[i]) : csv_file[i][j] = << >>

MissingApplies == \E col \in Requested : Absent(col)

DuplicatedColumnApplies == \E col \in Requested : Repeated(col)

BrokenApplies == \E i \in DataLines : BrokenLine(i)

EmptyResultApplies == \A i \in DataLines : BlankLine(i)

DuplicatedFindApplies ==
    \E i, k \in DataLines :
        /\ i < k
        /\ HasCell(i, FIND_STRING_COLUMN)
        /\ HasCell(k, FIND_STRING_COLUMN)
        /\ Cell(i, FIND_STRING_COLUMN) = Cell(k, FIND_STRING_COLUMN)

BlankFindApplies ==
    \E i \in DataLines : HasCell(i, FIND_STRING_COLUMN) /\ Cell(i, FIND_STRING_COLUMN) = << >>

FirstApplicable ==
    IF MissingApplies THEN "MissingColumn"
    ELSE IF DuplicatedColumnApplies THEN "DuplicatedColumn"
    ELSE IF BrokenApplies THEN "BrokenRow"
    ELSE IF EmptyResultApplies THEN "EmptyRows"
    ELSE IF DuplicatedFindApplies THEN "DuplicatedFindValue"
    ELSE IF BlankFindApplies THEN "BlankFindValue"
    ELSE "None"

\* Both requested columns are in the header exactly once.
ColumnsValid == HasHeader /\ ~MissingApplies /\ ~DuplicatedColumnApplies

\* The lines that are not blank, in file order.
NonBlankLines ==
    SelectSeq([i \in 1..(Len(csv_file) - 1) |-> i + 1], LAMBDA i : ~BlankLine(i))

\* The (find, replace) pairs of the lines that are not blank, in file order.
RowPairs ==
    [k \in 1..Len(NonBlankLines) |->
        << Cell(NonBlankLines[k], FIND_STRING_COLUMN),
           Cell(NonBlankLines[k], REPLACE_STRING_COLUMN) >>]

LinesWithFind(v) == { i \in DataLines : ~BlankLine(i) /\ Cell(i, FIND_STRING_COLUMN) = v }

Min(S) == CHOOSE x \in S : \A y \in S : x <= y

Lookup(dict, key) == dict[CHOOSE i \in 1..Len(dict) : dict[i][1] = key][2]

Elements(list) == { list[i] : i \in 1..Len(list) }

\* __init__ has ended, by returning or by raising.
Ended == lpc \in { "raised", "returned" }

\* The mapping has been built (line 237 has been executed).
MappingBuilt ==
    \/ lpc = "check_find_strings"
    \/ Ended /\ error.kind \in { "None", "DuplicatedFindValue", "BlankFindValue" }

----------------------------------------------------------------------------
(* Claims                                                                   *)

\* The left fold of single-rule literal replacement, stated on its own:
\* the leftmost occurrence of find is replaced and the rest of the text
\* behind it is treated the same way.
OccursAt(s, f, k) == k + Len(f) - 1 <= Len(s) /\ SubSeq(s, k, k + Len(f) - 1) = f

IsSubstring(f, s) == \E k \in 1..(Len(s) + 1) : OccursAt(s, f, k)

RECURSIVE LiteralReplaceAll(_, _, _)
LiteralReplaceAll(s, f, r) ==
    IF ~\E k \in 1..Len(s) : OccursAt(s, f, k)
    THEN s
    ELSE LET k == Min({ j \in 1..Len(s) : OccursAt(s, f, j) })
         IN  SubSeq(s, 1, k - 1) \o r \o LiteralReplaceAll(SubSeq(s, k + Len(f), Len(s)), f, r)

RECURSIVE FoldRules(_, _)
FoldRules(rules, text) ==
    IF rules = << >>
    THEN text
    ELSE FoldRules(Tail(rules), LiteralReplaceAll(text, Head(rules)[1], Head(rules)[2]))

ChainMapping == << << <<"a">>, <<"b">> >>, << <<"b">>, <<"c">> >> >>

\* C1: what replace_text returns is the left fold, over the mapping's rules
\* in insertion order, of replacing every occurrence of the rule's find
\* string in the current result; with the mapping [(a->b), (b->c)] the text
\* "a" becomes "c".
C1_SequentialFold ==
    rpc = "returned" =>
        /\ replaced_text = FoldRules(mapping_dict, data)
        /\ (mapping_dict = ChainMapping /\ data = <<"a">>) => replaced_text = <<"c">>

C1_Witness ==
    /\ rpc = "returned"
    /\ mapping_dict = ChainMapping
    /\ data = <<"a">>
    /\ replaced_text = <<"c">>

FindValues == { Cell(i, FIND_STRING_COLUMN) : i \in { k \in DataLines : ~BlankLine(k) } }

DuplicatedValues == { v \in FindValues : Cardinality(LinesWithFind(v)) > 1 }

\* C2: once the mapping is built, every find value that is in more than one
\* row maps to the replace value of its first row, is in the list of
\* duplicated values exactly once, that list holds the duplicated values and
\* no others, and the load ends with the duplicated-find-value error listing
\* them.
C2_FirstWinsAndDuplicatesListed ==
    MappingBuilt =>
        /\ \A v \in DuplicatedValues :
             /\ Count(Keys(mapping_dict), v) = 1
             /\ Lookup(mapping_dict, v) = Cell(Min(LinesWithFind(v)), REPLACE_STRING_COLUMN)
             /\ Count(duplicated_find_strings, v) = 1
        /\ Elements(duplicated_find_strings) = DuplicatedValues
        /\ (Ended /\ DuplicatedValues # {}) =>
             /\ error.kind = "DuplicatedFindValue"
             /\ error.items = duplicated_find_strings
             /\ ~constructed

C2_Witness ==
    /\ Ended
    /\ error.kind = "DuplicatedFindValue"
    /\ \E v \in DuplicatedValues :
         /\ Cardinality(LinesWithFind(v)) = 3
         /\ Lookup(mapping_dict, v) = <<"1">>
         /\ \E i \in LinesWithFind(v) : Cell(i, REPLACE_STRING_COLUMN) = <<"2">>

\* C3 as stated: a source with an empty find-cell in some data row fails
\* with the blank-find-value error, whatever its other rows and cells hold
\* (stated for the sources whose header holds both requested columns once
\* and whose rows all have the header's width or none, where every row has
\* a find-cell).
C3_AlwaysBlankFindValue ==
    (Ended /\ ColumnsValid /\ ~BrokenApplies /\ BlankFindApplies) =>
        error.kind = "BlankFindValue"

\* C3 as amended: a source with an empty find-cell in some data row never
\* loads, and the error is the blank-find-value error exactly when no
\* missing column, duplicated column, broken row or duplicated find value
\* is there to be reported first.
C3_BlankFindNeverLoads ==
    (Ended /\ HasHeader /\ BlankFindApplies) =>
        /\ ~constructed
        /\ error # NoError
        /\ error.kind = "BlankFindValue" <=>
             ~(MissingApplies \/ DuplicatedColumnApplies \/ BrokenApplies
                 \/ DuplicatedFindApplies)

C3_Witness ==
    /\ Ended
    /\ BlankFindApplies
    /\ error.kind = "BlankFindValue"
    /\ Len(csv_file) = 4

\* C4: a load of a source with a header ends with the first applicable
\* error of the order missing column, duplicated column, broken row, empty
\* result set, duplicated find value, blank find value, and returns an
\* instance exactly when none applies.
C4_FirstApplicableError ==
    (Ended /\ HasHeader) =>
        /\ error.kind = FirstApplicable
        /\ constructed <=> FirstApplicable = "None"

C4_Witness ==
    /\ Ended
    /\ error.kind = "DuplicatedColumn"
    /\ BrokenApplies
    /\ DuplicatedFindApplies
    /\ BlankFindApplies

BrokenLineSet == { i \in DataLines : BrokenLine(i) }

\* The part of C5 that the amendment keeps: with both requested columns
\* present once, the load fails with the broken-row error exactly when some
\* row after the header has a cell count that is neither 0 nor the header's,
\* and the error lists, in ascending order and once each, the line numbers
\* of all those rows and of no other, the row after the header being line 2.
BrokenRowsListed ==
    (Ended /\ ColumnsValid) =>
        /\ error.kind = "BrokenRow" <=> BrokenApplies
        /\ error.kind = "BrokenRow" =>
             /\ Elements(error.items) = BrokenLineSet
             /\ \A a, b \in 1..Len(error.items) : a < b => error.items[a] < error.items[b]

\* C5 as stated: ... and a row with zero cells or with all cells empty is
\* never listed.
C5_AllEmptyNeverListed ==
    /\ BrokenRowsListed
    /\ (Ended /\ ColumnsValid /\ error.kind = "BrokenRow") =>
         \A i \in DataLines : AllCellsEmpty(i) => i \notin Elements(error.items)

\* C5 as amended: ... a row with zero cells is never listed, and a row whose
\* cells are all empty is listed exactly when its cell count is neither 0
\* nor the header's column count.
C5_AllEmptyListedIffWrongWidth ==
    /\ BrokenRowsListed
    /\ (Ended /\ ColumnsValid /\ error.kind = "BrokenRow") =>
         \A i \in DataLines :
            /\ BlankLine(i) => i \notin Elements(error.items)
            /\ AllCellsEmpty(i) =>
                 (i \in Elements(error.items) <=>
                    Len(csv_file[i]) \notin { 0, Len(csv_file[1]) })

C5_Witness ==
    /\ Ended
    /\ ColumnsValid
    /\ error.kind = "BrokenRow"
    /\ error.items = <<2, 4>>
    /\ BlankLine(3)

\* The sources C6 is about: both requested columns present once, every data
\* row blank or as wide as the header, and the find values of the rows that
\* are not blank non-empty and pairwise different.
WellFormedSource ==
    /\ ColumnsValid
    /\ ~BrokenApplies
    /\ ~DuplicatedFindApplies
    /\ ~BlankFindApplies

C7_ReturnedMappingValid ==
    /\ constructed =>
         /\ \A a, b \in 1..Len(mapping_dict) : a # b => mapping_dict[a][1] # mapping_dict[b][1]
         /\ \A a \in 1..Len(mapping_dict) : mapping_dict[a][1] # << >>
         /\ mapping_dict = RowPairs
    /\ (Ended /\ error # NoError) => ~constructed
    /\ constructed => lpc = "returned" /\ error = NoError

C7_Witness ==
    /\ constructed
    /\ mapping_dict = << << <<"a">>, <<"1">> >>, << <<"b">>, <<"2">> >>, << <<"c">>, <<"1">> >> >>

AbsentSet == { col \in Requested : Absent(col) }

\* C8: the load of a source with a header fails with the missing-column
\* error exactly when a requested column name is absent from the header,
\* and the error lists, once each, the absent requested names and no other:
\* the find column alone when only it is absent, both names in one error
\* when both are.
C8_MissingColumnsListed ==
    (Ended /\ HasHeader) =>
        /\ error.kind = "MissingColumn" <=> AbsentSet # {}
        /\ error.kind = "MissingColumn" =>
             /\ Elements(error.items) = AbsentSet
             /\ Len(error.items) = Cardinality(AbsentSet)
        /\ (Absent(FIND_STRING_COLUMN) /\ ~Absent(REPLACE_STRING_COLUMN)) =>
             error.items = <<FIND_STRING_COLUMN>>
        /\ (Absent(FIND_STRING_COLUMN) /\ Absent(REPLACE_STRING_COLUMN)) =>
             error.items = <<FIND_STRING_COLUMN, REPLACE_STRING_COLUMN>>

C8_Witness ==
    /\ Ended
    /\ error.kind = "MissingColumn"
    /\ error.items = <<FIND_STRING_COLUMN, REPLACE_STRING_COLUMN>>
    /\ Len(csv_file) > 1

NoFindOccurs ==
    \A a \in 1..Len(mapping_dict) : ~IsSubstring(mapping_dict[a][1], data)

\* C9: replace_text returns a text equal to its argument when no find
\* string of the mapping is a substring of the argument.
C9_NoMatchPassthrough ==
    (rpc = "returned" /\ NoFindOccurs) => replaced_text = data

C9_Witness ==
    /\ rpc = "returned"
    /\ Len(mapping_dict) = 2
    /\ NoFindOccurs
    /\ Len(data) = 3
    /\ \E a \in 1..2 : mapping_dict[a][1][1] = data[1]

FailedAt(i, steps) ==
    \E e \in 1..Len(exceptions) : exceptions[e].file = i /\ exceptions[e].step \in steps

\* The number of files whose 'Reading TXT' line has been logged.
Started ==
    IF bpc \in { "after_loop", "exited" } THEN Len(txt_paths)
    ELSE IF bpc = "read" THEN file_i - 1
    ELSE file_i

BatchRuns == bpc # "idle"

\* The part of C10 that the amendment keeps: the files are attempted in
\* folder order, each once, whatever happened to the files before; each
\* failure is recorded once; the run exits only after every file has been
\* attempted, with a failure exit exactly when a failure was recorded.
BatchTolerant ==
    BatchRuns =>
        /\ reading_log = [k \in 1..Started |-> k]
        /\ \A a, b \in 1..Len(exceptions) : a # b => exceptions[a].file # exceptions[b].file
        /\ \A a \in 1..Len(exceptions) : exceptions[a].file \in Elements(reading_log)
        /\ exit_code # NotExited <=> bpc = "exited"
        /\ bpc = "exited" =>
             /\ reading_log = [k \in 1..Len(txt_paths) |-> k]
             /\ exit_code = 1 <=> Len(exceptions) > 0
             /\ exit_code = 0 <=> Len(exceptions) = 0

\* C10 as stated: ... and a file's output is written iff its read and
\* replace steps succeeded.
C10_WrittenIffReadAndReplaced ==
    /\ BatchTolerant
    /\ bpc = "exited" =>
         \A i \in 1..Len(txt_paths) :
            outputs[i] = replace_text(mapping_dict, txt_paths[i])
                <=> ~FailedAt(i, { "read", "replace" })

\* C10 as amended: ... the writing of a file's output is attempted (once)
\* iff its read and replace steps succeeded, the output holds the replaced
\* text when the write step succeeded as well, and a file whose read or
\* replace step failed gets no output.
C10_WriteAttemptedIffReadAndReplaced ==
    /\ BatchTolerant
    /\ bpc = "exited" =>
         \A i \in 1..Len(txt_paths) :
            /\ Count(writing_log, i) = (IF FailedAt(i, { "read", "replace" }) THEN 0 ELSE 1)
            /\ ~FailedAt(i, { "read", "replace", "write" }) =>
                 outputs[i] = replace_text(mapping_dict, txt_paths[i])
            /\ FailedAt(i, { "read", "replace" }) => outputs[i] = NoFile

C10_Witness ==
    /\ bpc = "exited"
    /\ exit_code = 1
    /\ Len(txt_paths) = 3
    /\ FailedAt(1, { "read" })
    /\ FailedAt(2, { "write" })
    /\ outputs[3] = replace_text(mapping_dict, txt_paths[3])
    /\ outputs[3] # txt_paths[3]

====
